---- MODULE Spec2Model ----
(***************************************************************************)
(* Content Optimization Toolkit: the Streamlit session (app.py), the       *)
(* per-URL summarisation loop (utils/data_processor.py) and the API client *)
(* (utils/api_client.py), as a state machine.                              *)
(*                                                                         *)
(* Every user interaction reruns main() from top to bottom.  An            *)
(* interaction other than the Analyze button is one action (the whole      *)
(* script pass, trailing write_stream included).  A pass started by the    *)
(* Analyze button is split along run_content_analysis: pc follows the      *)
(* status labels of the run, and the pass ends with main()'s write_stream. *)
(*                                                                         *)
(* Strings are sequences of characters; the empty string is <<>>.  An      *)
(* Optional[str] is <<>> for None and <<s>> for the string s.              *)
(***************************************************************************)
EXTENDS Integers, Sequences, FiniteSets, TLC

\* Longest URL list the search backend returns in the model.
MaxUrls == 3

\* st.slider("Number of Competitor URLs", min_value, max_value, value).
SliderMin == 1
SliderMax == 50
SliderDefault == 10

\* Where the progress of the per-URL loop starts and how much it spans.
ProgressBase == 25
ProgressSpan == 50
ProgressCap == 100

VARIABLES
    user_content,          \* st.session_state.user_content
    keyword,               \* st.session_state.keyword
    content_input_option,  \* st.session_state.content_input_option
    analysis_result,       \* st.session_state.analysis_result
    result,                \* st.session_state['result'] (kind "absent": key not set)
    number_of_searches,    \* Config.NUMBER_OF_SEARCHES
    pc,                    \* position of the script pass
    status,                \* label of the st.status widget of the run ("none": not created)
    urls,                  \* run_content_analysis: urls
    summaries,             \* get_competitor_summaries: summaries
    idx,                   \* get_competitor_summaries: iterations of the loop started so far
    reports,               \* values passed to progress_bar.progress, in order
    rendered,              \* what the pass has written to the page, in order
    calls,                 \* APIClient functions the run has invoked
    net,                   \* network requests the run has issued
    analyzed,              \* <<>>, or <<s>>: the summaries handed to analyze_content_with_openai
    outcomes,              \* history: what happened to each URL processed so far
    backend,               \* history: what the ranking backend answered in this run
    raised,                \* history: the stage whose exception reached the run's except clause
    content_from,          \* history: the input mode that delivered user_content
    result_of,             \* history: which run stored result ("none", "latest", "earlier")
    streamed               \* history: kind of the object the pass gave to st.write_stream

vars == <<user_content, keyword, content_input_option, analysis_result, result,
          number_of_searches, pc, status, urls, summaries, idx, reports, rendered,
          calls, net, analyzed, outcomes, backend, raised, content_from, result_of, streamed>>

session == <<user_content, keyword, content_input_option, analysis_result,
             number_of_searches, content_from>>

runLocals == <<status, urls, summaries, idx, reports, rendered, calls, net,
               analyzed, outcomes, backend, raised>>

----------------------------------------------------------------------------
(* Strings *)

\* The texts a user, a page or a file can deliver: empty, whitespace only, real.
Texts == {<<>>, <<" ">>, <<"a">>}

\* The keyword default "best laptops 2024".
DefaultKeyword == <<"a">>

RECURSIVE LStrip(_)
LStrip(s) == IF s # <<>> /\ Head(s) = " " THEN LStrip(Tail(s)) ELSE s

RECURSIVE RStrip(_)
RStrip(s) == IF s # <<>> /\ s[Len(s)] = " " THEN RStrip(SubSeq(s, 1, Len(s) - 1)) ELSE s

\* str.strip()
Strip(s) == RStrip(LStrip(s))

\* Python truth value of a str
Truthy(s) == s # <<>>

None == <<>>
Some(s) == <<s>>

\* Python truth value of an Optional[str]
TruthyOpt(o) == o # None /\ Truthy(o[1])

Modes == {"Paste Text", "Enter URL", "Upload File"}

Min(a, b) == IF a < b THEN a ELSE b

----------------------------------------------------------------------------
(* utils/api_client.py *)

\* What the ranking backend can answer.  "positions" carries the number of
\* ranked items that have a url.
SearchResponses(n) ==
    {[kind |-> k, count |-> 0] : k \in {"http_error", "no_positions", "malformed"}}
    \cup {[kind |-> "positions", count |-> m] : m \in 0..Min(n, MaxUrls)}

\* The URLs are opaque; rank i carries URL i.
RankedUrls(m) == [i \in 1..m |-> i]

\* fetch_top_urls(keyword, num_searches) against the backend response resp:
\* the list returned, whether a request was sent, whether an exception left
\* the function.
FetchTopUrls(kw, resp) ==
    IF Strip(kw) = <<>>
    THEN [urls |-> <<>>, net |-> FALSE, raises |-> FALSE]
    ELSE CASE resp.kind = "http_error"   -> [urls |-> <<>>, net |-> TRUE, raises |-> FALSE]
           [] resp.kind = "no_positions" -> [urls |-> <<>>, net |-> TRUE, raises |-> FALSE]
           [] resp.kind = "malformed"    -> [urls |-> <<>>, net |-> TRUE, raises |-> TRUE]
           [] resp.kind = "positions"    ->
                [urls |-> RankedUrls(resp.count), net |-> TRUE, raises |-> FALSE]

\* What can happen to one URL: the page fetch and, if it is reached, the summary call.
Outcomes == {"fetch_none", "fetch_raises", "summary_none", "summary_raises", "ok"}

\* The summary the model returns for the page of URL u: a non-empty string.
SummaryOf(u) == <<u>>

Placeholder == <<>>

\* fetch_webpage_content(url) under outcome o: None, or the cleaned text.
FetchWebpageContent(o) == IF o = "fetch_none" THEN None ELSE Some(<<"a">>)

\* summarize_content_with_openai(content) under outcome o for URL u.
SummarizeContent(o, u) == IF o = "ok" THEN Some(SummaryOf(u)) ELSE None

\* analyze_content_with_openai(text, keyword, competitor_summaries): the value
\* returned under the provider's behaviour p, and whether a request was sent.
AnalyzerBehaviours == {"stream", "api_error", "client_raises"}

AnalyzeContent(text, p) ==
    IF ~Truthy(text) \/ Strip(text) = <<>>
    THEN [kind |-> "error_dict", net |-> FALSE, raises |-> FALSE]
    ELSE CASE p = "client_raises" -> [kind |-> "none", net |-> FALSE, raises |-> TRUE]
           [] p = "api_error"     -> [kind |-> "error_str", net |-> TRUE, raises |-> FALSE]
           [] p = "stream"        -> [kind |-> "stream", net |-> TRUE, raises |-> FALSE]

----------------------------------------------------------------------------
(* utils/data_processor.py: one iteration of get_competitor_summaries *)

\* The entry the iteration appends to summaries for URL u under outcome o.
SlotFor(o, u) ==
    IF o = "fetch_raises" THEN Placeholder
    ELSE IF ~TruthyOpt(FetchWebpageContent(o)) THEN Placeholder
    ELSE IF o = "summary_raises" THEN Placeholder
    ELSE IF TruthyOpt(SummarizeContent(o, u)) THEN SummarizeContent(o, u)[1]
    ELSE Placeholder

\* AppendSlot with the placeholder forgotten: a failed URL leaves no entry.
AppendSlotDropsFailures(ss, o, u) ==
    IF SlotFor(o, u) = Placeholder THEN ss ELSE Append(ss, SlotFor(o, u))

AppendSlot(ss, o, u) == Append(ss, SlotFor(o, u))

\* Whether the iteration reaches the progress update at the bottom of the
\* loop body: the `continue` after a failed fetch goes round it.
ReachesProgressUpdate(o) == o # "fetch_none"

\* Progress without its base of 25.
ProgressNoBase(i, total) == Min((ProgressSpan * i) \div total, ProgressCap)

\* min(25 + int((50 / total_urls) * idx), 100).  The float product truncates
\* to the integer quotient for every 1 <= idx <= total_urls <= 50.
Progress(i, total) ==
    Min(ProgressBase + ((ProgressSpan * i) \div total), ProgressCap)

ReportProgress(rs, o, i, total) ==
    IF ReachesProgressUpdate(o) THEN Append(rs, Progress(i, total)) ELSE rs

\* What the iteration writes to the page.
UrlMessages(o) ==
    <<"processing", "info_fetching">> \o
    CASE o = "fetch_none"     -> <<"warning_fetch_failed">>
      [] o = "fetch_raises"   -> <<"error_processing">>
      [] o = "summary_raises" -> <<"info_summarizing", "error_processing">>
      [] o = "summary_none"   -> <<"info_summarizing", "warning_summary_failed">>
      [] o = "ok"             -> <<"info_summarizing", "success", "summary">>

UrlCalls(o) ==
    IF o \in {"fetch_none", "fetch_raises"}
    THEN {"fetch_webpage_content"}
    ELSE {"fetch_webpage_content", "summarize_content_with_openai"}

UrlNet(o) ==
    IF o \in {"summary_none", "ok"} THEN {"fetch", "summarize"} ELSE {"fetch"}

----------------------------------------------------------------------------
(* app.py *)

Absent == [kind |-> "absent", exhausted |-> FALSE]

\* main(): if "result" in st.session_state: st.write_stream(st.session_state.result).
\* A stream is read once; reading it again yields nothing.
Consumed(res) == IF res.kind = "stream" THEN [res EXCEPT !.exhausted = TRUE] ELSE res

StreamedKind(res) == IF res.kind = "absent" THEN "none" ELSE res.kind

EndOfPass ==
    /\ result' = Consumed(result)
    /\ streamed' = StreamedKind(result)

\* The slider positions explored: both ends and the default.
SliderValues == {SliderMin, SliderDefault, SliderMax}

\* initialize_session_state and sidebar_configuration, after the first pass.
Init ==
    /\ user_content = <<>>
    /\ keyword = DefaultKeyword
    /\ content_input_option = "Paste Text"
    /\ analysis_result = None
    /\ result = Absent
    /\ number_of_searches = SliderDefault
    /\ pc = "idle"
    /\ status = "none"
    /\ urls = <<>>
    /\ summaries = <<>>
    /\ idx = 0
    /\ reports = <<>>
    /\ rendered = <<>>
    /\ calls = {}
    /\ net = {}
    /\ analyzed = <<>>
    /\ outcomes = <<>>
    /\ backend = "none"
    /\ raised = "none"
    /\ content_from = "default"
    /\ result_of = "none"
    /\ streamed = "none"

\* sidebar_configuration: the slider is moved.
MoveSlider(n) ==
    /\ pc = "idle"
    /\ n # number_of_searches
    /\ number_of_searches' = n
    /\ EndOfPass
    /\ UNCHANGED <<user_content, keyword, content_input_option, analysis_result,
                   content_from, result_of, pc>>
    /\ UNCHANGED runLocals

\* content_input_section: the keyword field is edited.
SetKeyword(k) ==
    /\ pc = "idle"
    /\ k # keyword
    /\ keyword' = k
    /\ EndOfPass
    /\ UNCHANGED <<user_content, number_of_searches, content_input_option,
                   analysis_result, content_from, result_of, pc>>
    /\ UNCHANGED runLocals

\* SelectMode that empties user_content when the method changes.
SelectModeClearing(m) ==
    /\ pc = "idle"
    /\ m # content_input_option
    /\ content_input_option' = m
    /\ user_content' = <<>>
    /\ content_from' = "default"
    /\ EndOfPass
    /\ UNCHANGED <<keyword, number_of_searches, analysis_result, result_of, pc>>
    /\ UNCHANGED runLocals

\* content_input_section: another input method is chosen.  The widgets of the
\* new method start without input: the text area shows user_content, the
\* fetch button is not pressed, the uploader holds no file.
SelectMode(m) ==
    /\ pc = "idle"
    /\ m # content_input_option
    /\ content_input_option' = m
    /\ EndOfPass
    /\ UNCHANGED <<user_content, content_from, keyword, number_of_searches,
                   analysis_result, result_of, pc>>
    /\ UNCHANGED runLocals

\* content_input_section, "Paste Text": the text area is edited.
PasteText(t) ==
    /\ pc = "idle"
    /\ content_input_option = "Paste Text"
    /\ t # user_content
    /\ user_content' = t
    /\ content_from' = "Paste Text"
    /\ EndOfPass
    /\ UNCHANGED <<keyword, number_of_searches, content_input_option,
                   analysis_result, result_of, pc>>
    /\ UNCHANGED runLocals

\* content_input_section, "Enter URL": the Fetch Content button is pressed.
FetchContentClick(o) ==
    /\ pc = "idle"
    /\ content_input_option = "Enter URL"
    /\ IF o # "fetch_raises" /\ TruthyOpt(FetchWebpageContent(o))
       THEN /\ user_content' = FetchWebpageContent(o)[1]
            /\ content_from' = "Enter URL"
       ELSE UNCHANGED <<user_content, content_from>>
    /\ EndOfPass
    /\ UNCHANGED <<keyword, number_of_searches, content_input_option,
                   analysis_result, result_of, pc>>
    /\ UNCHANGED runLocals

\* What an uploaded file can hold: bytes that decode to a text, or bytes
\* that are not UTF-8.
Uploads == {Some(t) : t \in Texts} \cup {None}

\* content_input_section, "Upload File": a file is put into the uploader.
UploadFile(f) ==
    /\ pc = "idle"
    /\ content_input_option = "Upload File"
    /\ IF f # None
       THEN /\ user_content' = f[1]
            /\ content_from' = "Upload File"
       ELSE UNCHANGED <<user_content, content_from>>
    /\ EndOfPass
    /\ UNCHANGED <<keyword, number_of_searches, content_input_option,
                   analysis_result, result_of, pc>>
    /\ UNCHANGED runLocals

----------------------------------------------------------------------------
(* app.py: run_content_analysis, one script pass started by the Analyze button *)

\* NoUrls with the check left out.
NoUrlsIgnored(us) == FALSE

\* `if not urls`
NoUrls(us) == us = <<>>

\* `if not st.session_state.user_content`
NoContent(text) == ~Truthy(text)

\* HandleUnexpected that clears the page before it reports the error.
HandleUnexpectedRollsBack ==
    /\ rendered' = <<"error_unexpected">>
    /\ status' = "Analysis Failed"
    /\ pc' = "end"

\* The except clause of run_content_analysis: an exception that left the
\* stage is reported and the status widget put into its error state; what the
\* pass has rendered stays.
HandleUnexpected ==
    /\ rendered' = Append(rendered, "error_unexpected")
    /\ status' = "Analysis Failed"
    /\ pc' = "end"

\* CompetitorSummariesArg with the empty placeholders filtered out.
NonEmptySummariesArg(ss) == SelectSeq(ss, LAMBDA x : x # Placeholder)

\* The competitor_summaries argument of analyze_content_with_openai: the list
\* get_competitor_summaries returned, as it is.
CompetitorSummariesArg(ss) == ss

\* The Analyze button is pressed: run_content_analysis starts.
ClickAnalyze ==
    /\ pc = "idle"
    /\ result_of' = IF result.kind = "absent" THEN "none" ELSE "earlier"
    /\ streamed' = "none"
    /\ IF NoContent(user_content)
       THEN /\ rendered' = <<"warning_no_content">>
            /\ status' = "none"
            /\ pc' = "end"
       ELSE /\ rendered' = <<>>
            /\ status' = "Fetching Top URLs"
            /\ pc' = "fetching_urls"
    /\ UNCHANGED <<urls, summaries, idx, reports, calls, net, analyzed, outcomes,
                   backend, raised>>
    /\ UNCHANGED <<result>>
    /\ UNCHANGED session

\* urls = APIClient.fetch_top_urls(keyword, Config.NUMBER_OF_SEARCHES), the
\* check of the list, and the set-up of the per-URL stage.
FetchingUrls(resp) ==
    /\ pc = "fetching_urls"
    /\ LET r == FetchTopUrls(keyword, resp) IN
       /\ calls' = calls \cup {"fetch_top_urls"}
       /\ net' = IF r.net THEN net \cup {"search"} ELSE net
       /\ backend' = IF r.net THEN resp.kind ELSE "not asked"
       /\ IF r.raises
          THEN /\ raised' = "search"
               /\ HandleUnexpected
               /\ UNCHANGED urls
          ELSE IF NoUrls(r.urls)
          THEN /\ rendered' = Append(rendered, "warning_no_urls")
               /\ status' = "URL Fetching Failed"
               /\ pc' = "end"
               /\ UNCHANGED <<urls, raised>>
          ELSE /\ urls' = r.urls
               /\ rendered' = rendered \o [i \in 1..Len(r.urls) |-> "url"] \o <<"progress_bar">>
               /\ status' = "Analyzing Competitor Content"
               /\ pc' = "per_url"
               /\ UNCHANGED raised
    /\ UNCHANGED <<summaries, idx, reports, analyzed, outcomes>>
    /\ UNCHANGED <<result, result_of, streamed>>
    /\ UNCHANGED session

\* One iteration of the loop of get_competitor_summaries: enumerate hands
\* out the next URL, whatever the iterations before it appended.
ProcessUrl(o) ==
    /\ pc = "per_url"
    /\ idx < Len(urls)
    /\ idx' = idx + 1
    /\ summaries' = AppendSlot(summaries, o, urls[idx + 1])
    /\ reports' = ReportProgress(reports, o, idx + 1, Len(urls))
    /\ rendered' = rendered \o UrlMessages(o)
    /\ calls' = calls \cup UrlCalls(o)
    /\ net' = net \cup UrlNet(o)
    /\ outcomes' = Append(outcomes, o)
    /\ UNCHANGED <<status, pc, urls, analyzed, backend, raised>>
    /\ UNCHANGED <<result, result_of, streamed>>
    /\ UNCHANGED session

\* An exception raised in the loop outside the per-URL try block (the page
\* write that opens an iteration) leaves get_competitor_summaries.
ProcessUrlRaises ==
    /\ pc = "per_url"
    /\ idx < Len(urls)
    /\ raised' = "per_url"
    /\ HandleUnexpected
    /\ UNCHANGED <<urls, summaries, idx, reports, calls, net, analyzed, outcomes, backend>>
    /\ UNCHANGED <<result, result_of, streamed>>
    /\ UNCHANGED session

\* The loop is over: get_competitor_summaries returns summaries and the run
\* enters its last stage.
ReturnSummaries ==
    /\ pc = "per_url"
    /\ idx = Len(urls)
    /\ status' = "Generating Optimization Suggestions"
    /\ pc' = "analysis"
    /\ UNCHANGED <<urls, summaries, idx, reports, rendered, calls, net, analyzed,
                   outcomes, backend, raised>>
    /\ UNCHANGED <<result, result_of, streamed>>
    /\ UNCHANGED session

\* st.session_state['result'] = APIClient.analyze_content_with_openai(...)
GenerateAnalysis(p) ==
    /\ pc = "analysis"
    /\ LET r == AnalyzeContent(user_content, p) IN
       /\ calls' = calls \cup {"analyze_content_with_openai"}
       /\ net' = IF r.net THEN net \cup {"analyze"} ELSE net
       /\ analyzed' = <<CompetitorSummariesArg(summaries)>>
       /\ IF r.raises
          THEN /\ raised' = "analysis"
               /\ HandleUnexpected
               /\ UNCHANGED <<result, result_of>>
          ELSE /\ result' = [kind |-> r.kind, exhausted |-> FALSE]
               /\ result_of' = "latest"
               /\ status' = "Analysis Complete"
               /\ pc' = "end"
               /\ UNCHANGED <<rendered, raised>>
    /\ UNCHANGED <<urls, summaries, idx, reports, outcomes, backend, streamed>>
    /\ UNCHANGED session

\* run_content_analysis has returned: main() streams the stored result and
\* the pass ends; the locals of the run are gone.
EndPass ==
    /\ pc = "end"
    /\ EndOfPass
    /\ pc' = "idle"
    /\ status' = "none"
    /\ urls' = <<>>
    /\ summaries' = <<>>
    /\ idx' = 0
    /\ reports' = <<>>
    /\ rendered' = <<>>
    /\ calls' = {}
    /\ net' = {}
    /\ analyzed' = <<>>
    /\ outcomes' = <<>>
    /\ backend' = "none"
    /\ raised' = "none"
    /\ UNCHANGED result_of
    /\ UNCHANGED session

Next ==
    \/ \E n \in SliderValues : MoveSlider(n)
    \/ \E k \in Texts : SetKeyword(k)
    \/ \E m \in Modes : SelectMode(m)
    \/ \E t \in Texts : PasteText(t)
    \/ \E o \in {"fetch_none", "fetch_raises", "ok"} : FetchContentClick(o)
    \/ \E f \in Uploads : UploadFile(f)
    \/ ClickAnalyze
    \/ \E resp \in SearchResponses(number_of_searches) : FetchingUrls(resp)
    \/ \E o \in Outcomes : ProcessUrl(o)
    \/ ProcessUrlRaises
    \/ ReturnSummaries
    \/ \E p \in AnalyzerBehaviours : GenerateAnalysis(p)
    \/ EndPass

Spec == Init /\ [][Next]_vars

\* The terminal state of a run, in the words of the pipeline contract.
Terminal ==
    IF pc # "end" THEN "running"
    ELSE CASE status = "none"                -> "needs input"
           [] status = "URL Fetching Failed" -> "no results"
           [] status = "Analysis Failed"     -> "failure"
           [] status = "Analysis Complete"   -> "complete"

TypeOK ==
    /\ user_content \in Texts
    /\ keyword \in Texts
    /\ content_input_option \in Modes
    /\ number_of_searches \in SliderValues
    /\ pc \in {"idle", "fetching_urls", "per_url", "analysis", "end"}
    /\ result.kind \in {"absent", "stream", "error_dict", "error_str"}
    /\ idx \in 0..Len(urls)
    /\ Len(urls) <= MaxUrls

----------------------------------------------------------------------------
(* Properties *)

\* C1: get_competitor_summaries returns a list exactly as long as the URL
\* list, whatever happened to the single URLs: when the loop is over, and in
\* what the analyzer is handed, there is one entry per URL.
C1_SummariesLengthEqualsUrls ==
    /\ (pc = "per_url" /\ idx = Len(urls)) => Len(summaries) = Len(urls)
    /\ pc = "analysis" => Len(summaries) = Len(urls)

C1_Witness ==
    /\ pc = "analysis"
    /\ Len(urls) >= 2
    /\ \E i, j \in 1..Len(outcomes) :
          /\ outcomes[i] \in {"fetch_none", "fetch_raises"}
          /\ outcomes[j] \in {"summary_none", "summary_raises"}

\* C2: summaries stay aligned with the URLs.  Entry i is the placeholder
\* exactly when URL i failed and is the summary of URL i otherwise; every URL
\* is processed whatever failed before it; the analyzer is handed the whole
\* list, placeholders included.
C2_SummariesAligned ==
    /\ Len(outcomes) = idx
    /\ \A i \in 1..Len(outcomes) :
          /\ i \in DOMAIN summaries
          /\ (outcomes[i] # "ok") <=> (summaries[i] = Placeholder)
          /\ (outcomes[i] = "ok") => (summaries[i] = SummaryOf(urls[i]))
    /\ pc = "analysis" => idx = Len(urls)
    /\ analyzed # <<>> =>
          /\ analyzed[1] = summaries
          /\ Len(analyzed[1]) = Len(urls)

C2_Witness ==
    /\ pc = "end"
    /\ outcomes = <<"ok", "fetch_none", "ok">>
    /\ analyzed = << <<SummaryOf(urls[1]), Placeholder, SummaryOf(urls[3])>> >>

\* C3: a run started while user_content is blank (empty or whitespace only)
\* ends in "needs input" and makes no search, fetch, summarize or analyze call.
C3_BlankContentMakesNoCall ==
    (pc # "idle" /\ Strip(user_content) = <<>>) =>
        /\ calls = {}
        /\ net = {}
        /\ pc = "end" => Terminal = "needs input"

\* C4: when the search yields no URL (blank keyword, HTTP error, no
\* positions, no position with a url) the run ends in "no results" and makes
\* no fetch, summarize or analyze call.
C4_NoUrlsEndsRun ==
    (\/ backend \in {"not asked", "http_error", "no_positions"}
     \/ (backend = "positions" /\ urls = <<>>)) =>
        /\ Terminal = "no results"
        /\ calls = {"fetch_top_urls"}
        /\ net \subseteq {"search"}
        /\ summaries = <<>>
        /\ analyzed = <<>>

C4_Witness ==
    /\ Terminal = "no results"
    /\ backend = "http_error"
    /\ net = {"search"}

\* C5: only a stream-shaped result is stored and given to st.write_stream;
\* an error-shaped result never is.
C5_OnlyStreamsAreStreamed ==
    streamed \in {"none", "stream"}

\* C6: once a new run has started and ended, whatever its outcome, the
\* stored result is not the result of an earlier run.
C6_NoResultOfEarlierRun ==
    pc \in {"end", "idle"} => result_of # "earlier"

\* C7: user_content was delivered by the input mode that is selected now,
\* never by a mode selected before.
C7_ContentFromSelectedMode ==
    content_from \in {"default", content_input_option}

\* C7 as amended: user_content is overwritten only by the selected input mode
\* when it delivers text; choosing another input mode leaves it as it is.
C7_ContentKeptAcrossModes ==
    [][/\ (user_content' # user_content) =>
            /\ content_input_option' = content_input_option
            /\ content_from' = content_input_option
       /\ (content_input_option' # content_input_option) =>
            /\ user_content' = user_content
            /\ content_from' = content_from]_vars

C7_Witness ==
    /\ content_from = "Enter URL"
    /\ content_input_option = "Paste Text"
    /\ user_content # <<>>

\* C8: every URL the loop has processed, whether it got a summary or the
\* placeholder, has had exactly one progress report by the time the next URL
\* is started or the analyzer invoked.
C8_OneReportPerUrl ==
    pc \in {"per_url", "analysis", "end"} => Len(reports) = idx

\* C9: the progress values reported during the loop are non-decreasing and
\* lie in [25, 100]: in every run, and for every position in every list of 1
\* to 50 URLs.
ProgressOfEveryList ==
    \A total \in SliderMin..SliderMax : \A i \in 1..total :
        /\ ProgressBase <= Progress(i, total)
        /\ Progress(i, total) <= ProgressCap
        /\ i < total => Progress(i, total) <= Progress(i + 1, total)

C9_ProgressMonotoneBounded ==
    /\ \A i \in 1..Len(reports) : ProgressBase <= reports[i] /\ reports[i] <= ProgressCap
    /\ \A i \in 1..(Len(reports) - 1) : reports[i] <= reports[i + 1]
    /\ ProgressOfEveryList

C9_Witness ==
    /\ pc = "analysis"
    /\ Len(reports) >= 2
    /\ reports[1] < reports[Len(reports)]
    /\ "fetch_none" \in {outcomes[i] : i \in 1..Len(outcomes)}

\* C10: an exception that leaves a stage of the run (search, per-URL loop,
\* analysis) is caught by the run: it is reported, the run ends in its
\* failure state and returns normally, and what was rendered before stays.
C10_UnexpectedCaught ==
    [][(raised = "none" /\ raised' # "none") =>
          /\ pc' = "end"
          /\ status' = "Analysis Failed"
          /\ rendered' = Append(rendered, "error_unexpected")
          /\ UNCHANGED <<result, result_of>>
          /\ UNCHANGED session]_vars

C10_Witness ==
    /\ raised = "analysis"
    /\ Terminal = "failure"
    /\ Len(rendered) > 1
    /\ rendered[Len(rendered)] = "error_unexpected"

====
